---- MODULE Spec2Model ----
(***************************************************************************)
(* Model of substrate/state-machine/src/changes_trie/build.rs:             *)
(* prepare_input, prepare_extrinsics_input and prepare_digest_input.       *)
(*                                                                         *)
(* One behaviour is one call of prepare_input.  The initial state fixes    *)
(* the arguments of the call (backend, optional storage, overlay); the     *)
(* actions are the steps of the call: the two early returns, one round of  *)
(* the loop over prospective.chain(committed), the conversion of the       *)
(* extrinsic map into pairs, one round of the loop over the digest build   *)
(* iterator, and the conversion of the digest map into pairs.              *)
(***************************************************************************)
EXTENDS Integers, Sequences, FiniteSets, TLC

VARIABLES
    has_storage,        \* storage: Option<&S> is Some
    has_extrinsic_changes, \* changes.extrinsic_changes is Some
    block,              \* extrinsic_changes.block
    config,             \* extrinsic_changes.changes_trie_config
    ec_prospective,     \* extrinsic_changes.prospective: key -> set of ordinals
    ec_committed,       \* extrinsic_changes.committed: key -> set of ordinals
    overlay,            \* changes.storage(key), per key
    backend,            \* backend.exists_storage(key), per key
    roots,              \* storage.root(block), per block
    tries,              \* raw keys of the changes trie of each block
    pc,                 \* position in prepare_input
    pros_left,          \* keys of prospective the chain has not yielded yet
    comm_left,          \* keys of committed the chain has not yielded yet
    extrinsic_map,      \* local BTreeMap of prepare_extrinsics_input
    input,              \* local Vec of prepare_input
    digest_left,        \* blocks the digest build iterator has not yielded yet
    digest_map,         \* local BTreeMap of prepare_digest_input
    result,             \* value returned by prepare_input
    backend_reads,      \* keys exists_storage was called with
    storage_reads       \* blocks storage.root was called with

vars == <<has_storage, has_extrinsic_changes, block, config, ec_prospective,
          ec_committed, overlay, backend, roots, tries, pc, pros_left,
          comm_left, extrinsic_map, input, digest_left, digest_map, result,
          backend_reads, storage_reads>>

inputs == <<has_storage, has_extrinsic_changes, block, config, ec_prospective,
            ec_committed, overlay, backend, roots, tries>>

(***************************************************************************)
(* Bounds of the model.                                                    *)
(***************************************************************************)
MaxOrdinal == 1
MaxBlock == 9
MaxTrieKeys == 2

Ordinals == 0..MaxOrdinal
Blocks == 1..MaxBlock

\* Storage keys (Vec<u8>).  K1 sorts before K2 on the raw bytes although it
\* is the longer one; K2 is a proper prefix of K3.
K1 == <<0, 1>>
K2 == <<1>>
K3 == <<1, 0>>
Keys == {K1, K2, K3}

Configs == {[digest_interval |-> 3, digest_levels |-> 0],
            [digest_interval |-> 3, digest_levels |-> 1],
            [digest_interval |-> 3, digest_levels |-> 2],
            [digest_interval |-> 2, digest_levels |-> 2]}

(***************************************************************************)
(* Ordered containers.                                                     *)
(***************************************************************************)
Min(a, b) == IF a < b THEN a ELSE b

\* Ord of Vec<u8>: lexicographic on the bytes, a proper prefix sorts first.
LexLess(a, b) ==
    \E i \in 1..(Min(Len(a), Len(b)) + 1) :
        /\ \A j \in 1..(i - 1) : a[j] = b[j]
        /\ \/ i > Len(a) /\ i <= Len(b)
           \/ i <= Len(a) /\ i <= Len(b) /\ a[i] < b[i]

\* The keys ordered by length first, the bytes second.
RECURSIVE SortedKeysShortestFirst(_)
SortedKeysShortestFirst(S) ==
    IF S = {} THEN <<>>
    ELSE LET m == CHOOSE x \in S : \A y \in S \ {x} :
                      \/ Len(x) < Len(y)
                      \/ Len(x) = Len(y) /\ LexLess(x, y)
         IN  <<m>> \o SortedKeysShortestFirst(S \ {m})

\* BTreeMap<Vec<u8>, _>::into_iter: the keys in ascending order.
RECURSIVE SortedKeys(_)
SortedKeys(S) ==
    IF S = {} THEN <<>>
    ELSE LET m == CHOOSE x \in S : \A y \in S \ {x} : LexLess(x, y)
         IN  <<m>> \o SortedKeys(S \ {m})

\* BTreeSet<u32 / u64>::iter().collect(): the elements in ascending order.
RECURSIVE SortedNums(_)
SortedNums(S) ==
    IF S = {} THEN <<>>
    ELSE LET m == CHOOSE x \in S : \A y \in S : x <= y
         IN  <<m>> \o SortedNums(S \ {m})

Range(s) == {s[i] : i \in 1..Len(s)}

EmptyMap == [k \in {} |-> {}]

(***************************************************************************)
(* Collaborators of build.rs that live in other files of the crate:        *)
(* the key codec of changes_trie::input, the digest build iterator, the    *)
(* overlay's storage() view.  build.rs only calls them.                    *)
(***************************************************************************)

\* ExtrinsicIndex::key_neutral_prefix(block): discriminant, then the block.
ExtrinsicPrefix(b) == <<1, b>>

\* DigestIndex::key_neutral_prefix(block): discriminant, then the block.
DigestPrefix(b) == <<2, b>>

\* Encode of InputKey: neutral prefix, then the length-prefixed storage key.
EncodeExtrinsicIndex(b, key) == ExtrinsicPrefix(b) \o <<Len(key)>> \o key

EncodeDigestIndex(b, key) == DigestPrefix(b) \o <<Len(key)>> \o key

DecodeNone == [ok |-> FALSE, kind |-> "None", block |-> 0, key |-> <<>>]

\* Decode of InputKey from the raw bytes of a trie key: None when the
\* discriminant is unknown or the bytes run out.
Decode(raw) ==
    IF Len(raw) < 3 THEN DecodeNone
    ELSE IF raw[1] \notin {1, 2} THEN DecodeNone
    ELSE IF Len(raw) < 3 + raw[3] THEN DecodeNone
    ELSE [ok |-> TRUE,
          kind |-> IF raw[1] = 1 THEN "ExtrinsicIndex" ELSE "DigestIndex",
          block |-> raw[2],
          key |-> SubSeq(raw, 4, 3 + raw[3])]

\* for_keys_with_prefix visits the raw keys that start with the prefix.
HasPrefix(raw, prefix) ==
    /\ Len(raw) >= Len(prefix)
    /\ SubSeq(raw, 1, Len(prefix)) = prefix

RECURSIVE Pow(_, _)
Pow(n, e) == IF e = 0 THEN 1 ELSE n * Pow(n, e - 1)

\* The highest digest level (at most digest_levels) the block is a boundary
\* of; 0 when the block is no digest boundary.
DigestLevelAt(cfg, b) ==
    LET levels == {l \in 1..cfg.digest_levels :
                       b % Pow(cfg.digest_interval, l) = 0}
    IN  IF levels = {} THEN 0
        ELSE CHOOSE l \in levels : \A m \in levels : m <= l

\* digest_build_iterator(config, block): nothing off a digest boundary; on a
\* level-L boundary the digest_interval - 1 immediate children one level
\* down (leaf blocks for L = 1, level-(L-1) digest blocks otherwise).
digest_build_iterator(cfg, b) ==
    LET l == DigestLevelAt(cfg, b)
    IN  IF l = 0 THEN <<>>
        ELSE LET step == Pow(cfg.digest_interval, l - 1)
                 first == b - Pow(cfg.digest_interval, l)
             IN  [j \in 1..(cfg.digest_interval - 1) |-> first + j * step]

(***************************************************************************)
(* prepare_extrinsics_input                                                *)
(***************************************************************************)

\* changes.storage(key).map(|v| v.is_some()).unwrap_or_default()
OverlayHasValue(key) ==
    CASE overlay[key] = "Value" -> TRUE
      [] overlay[key] = "Tombstone" -> FALSE
      [] overlay[key] = "NoOpinion" -> FALSE

\* The filter with the backend never asked: only a live overlay value keeps.
FilterOutcomeOverlayOnly(key) ==
    IF OverlayHasValue(key) THEN "keep" ELSE "skip"

\* Lines 85-89: what one round of the loop does with the key.
FilterOutcome(key) ==
    IF ~OverlayHasValue(key)
    THEN CASE backend[key] = "Error" -> "err"
           [] backend[key] = "Missing" -> "skip"
           [] backend[key] = "Exists" -> "keep"
    ELSE "keep"

\* Lines 85-86: exists_storage is called only when the overlay has no value.
BackendConsulted(key) == ~OverlayHasValue(key)

\* insert() in place of entry().or_default().extend(): the later map wins.
MergeExtrinsicsOverride(map, key, extrinsics) ==
    [k \in DOMAIN map \cup {key} |-> IF k = key THEN extrinsics ELSE map[k]]

\* Lines 91-92: extrinsic_map.entry(key.clone()).or_default().extend(extrinsics)
MergeExtrinsics(map, key, extrinsics) ==
    [k \in DOMAIN map \cup {key} |->
        (IF k \in DOMAIN map THEN map[k] ELSE {})
            \cup (IF k = key THEN extrinsics ELSE {})]

\* Lines 95-100: the map as ExtrinsicIndex pairs, in the map's order.
ExtrinsicPairs(map, b) ==
    LET ks == SortedKeys(DOMAIN map)
    IN  [i \in 1..Len(ks) |->
            [kind |-> "ExtrinsicIndex", block |-> b, key |-> ks[i],
             value |-> SortedNums(map[ks[i]])]]

(***************************************************************************)
(* prepare_digest_input                                                    *)
(***************************************************************************)

\* A missing root read as an empty trie instead of an error.
RootOutcomeLenient(b) ==
    CASE roots[b] = "Error" -> "err"
      [] roots[b] = "NoRoot" -> "scan"
      [] roots[b] = "Root" -> "scan"

\* Lines 118-119: storage.root(b)? and ok_or_else(..)?
RootOutcome(b) ==
    CASE roots[b] = "Error" -> "err"
      [] roots[b] = "NoRoot" -> "noroot"
      [] roots[b] = "Root" -> "scan"

\* The scan with the decode result used without looking at it.
ExtrinsicScanUnchecked(trie, b) ==
    {Decode(raw).key : raw \in {r \in trie : HasPrefix(r, ExtrinsicPrefix(b))}}

\* Lines 122-127: storage keys of the raw keys under the ExtrinsicIndex
\* prefix of b that decode to InputKey::ExtrinsicIndex.
ExtrinsicScan(trie, b) ==
    {Decode(raw).key : raw \in
        {r \in trie : /\ HasPrefix(r, ExtrinsicPrefix(b))
                      /\ Decode(r).ok
                      /\ Decode(r).kind = "ExtrinsicIndex"}}

\* The second scan left out.
DigestScanNothing(trie, b) == {}

\* Lines 129-134: storage keys of the raw keys under the DigestIndex prefix
\* of b that decode to InputKey::DigestIndex.
DigestScan(trie, b) ==
    {Decode(raw).key : raw \in
        {r \in trie : /\ HasPrefix(r, DigestPrefix(b))
                      /\ Decode(r).ok
                      /\ Decode(r).kind = "DigestIndex"}}

\* The block being built inserted in place of the block being scanned.
InsertTargetBlock(map, key, b) ==
    [k \in DOMAIN map \cup {key} |->
        (IF k \in DOMAIN map THEN map[k] ELSE {})
            \cup (IF k = key THEN {block} ELSE {})]

\* insert(key, {b}) in place of entry().or_default().insert(b).
InsertBlockOverwrite(map, key, b) ==
    [k \in DOMAIN map \cup {key} |-> IF k = key THEN {b} ELSE map[k]]

\* Lines 125-126 and 132-133: digest_map.entry(key).or_default().insert(b)
InsertBlock(map, key, b) ==
    [k \in DOMAIN map \cup {key} |->
        (IF k \in DOMAIN map THEN map[k] ELSE {})
            \cup (IF k = key THEN {b} ELSE {})]

RECURSIVE InsertAll(_, _, _)
InsertAll(map, ks, b) ==
    IF ks = {} THEN map
    ELSE LET k == CHOOSE x \in ks : TRUE
         IN  InsertAll(InsertBlock(map, k, b), ks \ {k}, b)

\* Lines 120-134: both scans of the trie of b folded into the digest map.
FoldBlock(map, trie, b) ==
    InsertAll(InsertAll(map, ExtrinsicScan(trie, b), b), DigestScan(trie, b), b)

\* Lines 137-141: the map as DigestIndex pairs, in the map's order.
DigestPairs(map, b) ==
    LET ks == SortedKeys(DOMAIN map)
    IN  [i \in 1..Len(ks) |->
            [kind |-> "DigestIndex", block |-> b, key |-> ks[i],
             value |-> SortedNums(map[ks[i]])]]

\* Lines 116-135 when every root is there: the map after the loop has run
\* over the blocks of seq, reading the tries trs.
RECURSIVE DigestFold(_, _, _)
DigestFold(map, seq, trs) ==
    IF seq = <<>> THEN map
    ELSE DigestFold(FoldBlock(map, trs[Head(seq)], Head(seq)), Tail(seq), trs)

(***************************************************************************)
(* prepare_input                                                           *)
(***************************************************************************)
NoMsg == [kind |-> "none", block |-> 0]
Pending == [tag |-> "Pending", some |-> FALSE, list |-> <<>>, msg |-> NoMsg]
OkNone == [tag |-> "Ok", some |-> FALSE, list |-> <<>>, msg |-> NoMsg]
OkSome(l) == [tag |-> "Ok", some |-> TRUE, list |-> l, msg |-> NoMsg]
Err(kind, b) ==
    [tag |-> "Err", some |-> FALSE, list |-> <<>>,
     msg |-> [kind |-> kind, block |-> b]]

\* The early return taken only when both are missing.
NoResultBothMissing == ~has_storage /\ ~has_extrinsic_changes

\* Lines 50-57: the two early returns.
NoResult == ~has_storage \/ ~has_extrinsic_changes

\* Ok(None), before anything is read.
ReturnNoResult ==
    /\ pc = "start"
    /\ NoResult
    /\ result' = OkNone
    /\ pc' = "done"
    /\ UNCHANGED <<inputs, pros_left, comm_left, extrinsic_map, input,
                   digest_left, digest_map, backend_reads, storage_reads>>

\* Line 59 and the start of prepare_extrinsics_input (lines 81-82).
BeginExtrinsics ==
    /\ pc = "start"
    /\ ~NoResult
    /\ input' = <<>>
    /\ extrinsic_map' = EmptyMap
    /\ pros_left' = DOMAIN ec_prospective
    /\ comm_left' = DOMAIN ec_committed
    /\ pc' = "extrinsics"
    /\ UNCHANGED <<inputs, digest_left, digest_map, result, backend_reads,
                   storage_reads>>

\* One round of the loop of lines 82-93 on the pair (key, extrinsics).
ExtrinsicsRound(key, extrinsics) ==
    /\ backend_reads' =
           IF BackendConsulted(key) THEN backend_reads \cup {key}
           ELSE backend_reads
    /\ CASE FilterOutcome(key) = "err" ->
                /\ result' = Err("backend", 0)
                /\ pc' = "done"
                /\ UNCHANGED extrinsic_map
         [] FilterOutcome(key) = "skip" ->
                UNCHANGED <<result, pc, extrinsic_map>>
         [] FilterOutcome(key) = "keep" ->
                /\ extrinsic_map' = MergeExtrinsics(extrinsic_map, key, extrinsics)
                /\ UNCHANGED <<result, pc>>

\* The chain yields the pairs of prospective first, then those of committed;
\* the order inside each map is the map's own.
ExtrinsicsStep ==
    /\ pc = "extrinsics"
    /\ pros_left \cup comm_left # {}
    /\ IF pros_left # {}
       THEN \E key \in pros_left :
                /\ ExtrinsicsRound(key, ec_prospective[key])
                /\ pros_left' = pros_left \ {key}
                /\ UNCHANGED comm_left
       ELSE \E key \in comm_left :
                /\ ExtrinsicsRound(key, ec_committed[key])
                /\ comm_left' = comm_left \ {key}
                /\ UNCHANGED pros_left
    /\ UNCHANGED <<inputs, input, digest_left, digest_map, storage_reads>>

\* Lines 95-100 and 60, then the start of prepare_digest_input (116-117).
ExtrinsicsCollect ==
    /\ pc = "extrinsics"
    /\ pros_left = {}
    /\ comm_left = {}
    /\ input' = input \o ExtrinsicPairs(extrinsic_map, block)
    /\ digest_map' = EmptyMap
    /\ digest_left' = digest_build_iterator(config, block)
    /\ pc' = "digest"
    /\ UNCHANGED <<inputs, pros_left, comm_left, extrinsic_map, result,
                   backend_reads, storage_reads>>

\* One round of the loop of lines 117-135.
DigestStep ==
    /\ pc = "digest"
    /\ digest_left # <<>>
    /\ LET digest_build_block == Head(digest_left)
       IN  /\ storage_reads' = storage_reads \cup {digest_build_block}
           /\ digest_left' = Tail(digest_left)
           /\ CASE RootOutcome(digest_build_block) = "err" ->
                       /\ result' = Err("storage", 0)
                       /\ pc' = "done"
                       /\ UNCHANGED digest_map
                [] RootOutcome(digest_build_block) = "noroot" ->
                       /\ result' = Err("No changes trie root for block",
                                        digest_build_block)
                       /\ pc' = "done"
                       /\ UNCHANGED digest_map
                [] RootOutcome(digest_build_block) = "scan" ->
                       /\ digest_map' = FoldBlock(digest_map,
                                                  tries[digest_build_block],
                                                  digest_build_block)
                       /\ UNCHANGED <<result, pc>>
    /\ UNCHANGED <<inputs, pros_left, comm_left, extrinsic_map, input,
                   backend_reads>>

\* Lines 137-141, 61 and 67.
DigestCollect ==
    /\ pc = "digest"
    /\ digest_left = <<>>
    /\ input' = input \o DigestPairs(digest_map, block)
    /\ result' = OkSome(input')
    /\ pc' = "done"
    /\ UNCHANGED <<inputs, pros_left, comm_left, extrinsic_map, digest_left,
                   digest_map, backend_reads, storage_reads>>

Next ==
    \/ ReturnNoResult
    \/ BeginExtrinsics
    \/ ExtrinsicsStep
    \/ ExtrinsicsCollect
    \/ DigestStep
    \/ DigestCollect

(***************************************************************************)
(* The arguments of a call.  A key's part of the overlay and the backend   *)
(* is a record: p and c are the key's entry in prospective and committed   *)
(* (<<>> for no entry, <<set>> for an entry), ov is what storage(key)      *)
(* gives, be is what exists_storage(key) gives.                            *)
(***************************************************************************)
OverlayVals == {"NoOpinion", "Tombstone", "Value"}
BackendVals == {"Exists", "Missing", "Error"}
RootVals == {"Root", "NoRoot", "Error"}

OptSets == {<<>>} \cup {<<s>> : s \in SUBSET Ordinals}

KeyCases == [p : OptSets, c : OptSets, ov : OverlayVals, be : BackendVals]

KeyCase(p, c, ov, be) == [p |-> p, c |-> c, ov |-> ov, be |-> be]

FewKeyCases ==
    {KeyCase(<<>>, <<>>, "NoOpinion", "Missing"),
     KeyCase(<<>>, <<{MaxOrdinal}>>, "Tombstone", "Exists"),
     KeyCase(<<{0}>>, <<{0, MaxOrdinal}>>, "Value", "Missing"),
     KeyCase(<<{MaxOrdinal}>>, <<>>, "Tombstone", "Missing")}

FixedKeyCases ==
    (K1 :> KeyCase(<<{0}>>, <<{MaxOrdinal}>>, "Value", "Missing"))
        @@ (K2 :> KeyCase(<<{0, MaxOrdinal}>>, <<>>, "Tombstone", "Exists"))
        @@ (K3 :> KeyCase(<<>>, <<>>, "NoOpinion", "Missing"))

\* Raw keys of a block's trie, up to the block number: well-formed keys of
\* both variants (K3 as ExtrinsicIndex only), and keys whose bytes run out
\* (after the length, and before it).
Shapes ==
    {[tag |-> t, tail |-> <<Len(k)>> \o k] : t \in {1, 2}, k \in {K1, K2}}
        \cup {[tag |-> 1, tail |-> <<Len(K3)>> \o K3]}
        \cup {[tag |-> 1, tail |-> <<2, 1>>], [tag |-> 2, tail |-> <<>>]}

Raw(sh, b) == <<sh.tag, b>> \o sh.tail

StorageCases ==
    {[root |-> "Root", shapes |-> t] :
         t \in {u \in SUBSET Shapes : Cardinality(u) <= MaxTrieKeys}}
        \cup {[root |-> r, shapes |-> {}] : r \in {"NoRoot", "Error"}}

\* The trie of a block the call has no reason to open: entries of the block
\* itself (ExtrinsicIndex always, DigestIndex on even blocks), an entry
\* filed under another block, a key cut short and a key of unknown tag.
FixedTrie(b) ==
    {EncodeExtrinsicIndex(b, K1), EncodeExtrinsicIndex(b + 1, K2),
     <<1, b, 2, 1>>, <<3, b, 1, 1>>}
        \cup (IF b % 2 = 0 THEN {EncodeDigestIndex(b, K2)} ELSE {})

InitWith(hs, hec, b, cfg, cases, rts, trs) ==
    /\ has_storage = hs
    /\ has_extrinsic_changes = hec
    /\ block = b
    /\ config = cfg
    /\ ec_prospective = [k \in {x \in Keys : cases[x].p # <<>>} |-> cases[k].p[1]]
    /\ ec_committed = [k \in {x \in Keys : cases[x].c # <<>>} |-> cases[k].c[1]]
    /\ overlay = [k \in Keys |-> cases[k].ov]
    /\ backend = [k \in Keys |-> cases[k].be]
    /\ roots = rts
    /\ tries = trs
    /\ pc = "start"
    /\ pros_left = {}
    /\ comm_left = {}
    /\ extrinsic_map = EmptyMap
    /\ input = <<>>
    /\ digest_left = <<>>
    /\ digest_map = EmptyMap
    /\ result = Pending
    /\ backend_reads = {}
    /\ storage_reads = {}

\* Overlay and backend varied (one key over every case, the others over a
\* few), on a level-1 digest block.
InitOverlay ==
    \E focus \in Keys, fc \in KeyCases, oc \in [Keys -> FewKeyCases],
       b \in {3} :
        InitWith(TRUE, TRUE, b, [digest_interval |-> 3, digest_levels |-> 1],
                 [k \in Keys |-> IF k = focus THEN fc ELSE oc[k]],
                 [x \in Blocks |-> "Root"],
                 [x \in Blocks |-> FixedTrie(x)])

\* Block, configuration and the storage of the blocks the iterator yields
\* varied.
InitStorage ==
    \E b \in Blocks, cfg \in Configs :
        \E sc \in [Range(digest_build_iterator(cfg, b)) -> StorageCases] :
            InitWith(TRUE, TRUE, b, cfg, FixedKeyCases,
                     [x \in Blocks |-> IF x \in DOMAIN sc THEN sc[x].root
                                       ELSE "Root"],
                     [x \in Blocks |->
                         IF x \in DOMAIN sc
                         THEN {Raw(sh, x) : sh \in sc[x].shapes}
                         ELSE FixedTrie(x)])

\* The options present or absent, with reads of the backend and of the
\* roots that succeed or fail.
InitOptions ==
    \E hs \in BOOLEAN, hec \in BOOLEAN, be \in [Keys -> BackendVals],
       r1 \in RootVals, r2 \in RootVals :
        InitWith(hs, hec, 3, [digest_interval |-> 3, digest_levels |-> 1],
                 [k \in Keys |-> KeyCase(<<{0}>>, <<{MaxOrdinal}>>,
                                         "Tombstone", be[k])],
                 [x \in Blocks |-> IF x = 1 THEN r1
                                   ELSE IF x = 2 THEN r2 ELSE "Root"],
                 [x \in Blocks |-> FixedTrie(x)])

Init == InitOverlay \/ InitStorage \/ InitOptions

Spec == Init /\ [][Next]_vars

(***************************************************************************)
(* Properties of the value prepare_input returns.                          *)
(***************************************************************************)
Done == pc = "done"

Succeeded == pc = "done" /\ result.tag = "Ok" /\ result.some

Entries == {result.list[i] : i \in 1..Len(result.list)}

IsExtrinsic(e) == e.kind = "ExtrinsicIndex"

IsDigest(e) == e.kind = "DigestIndex"

ExtrinsicEntries == {e \in Entries : IsExtrinsic(e)}

DigestEntries == {e \in Entries : IsDigest(e)}

DigestPart == SelectSeq(result.list, IsDigest)

Touched == DOMAIN ec_prospective \cup DOMAIN ec_committed

Prospective(k) == IF k \in DOMAIN ec_prospective THEN ec_prospective[k] ELSE {}

Committed(k) == IF k \in DOMAIN ec_committed THEN ec_committed[k] ELSE {}

Yielded == Range(digest_build_iterator(config, block))

StrictlyAscending(s) == \A i \in 1..(Len(s) - 1) : s[i] < s[i + 1]

\* C1: after a successful call, a touched key has an ExtrinsicIndex entry
\* exactly when the overlay's final value for it is Some or the backend
\* holds the key.
C1_Retention ==
    Succeeded =>
        \A k \in Touched :
            (\E e \in ExtrinsicEntries : e.key = k)
                <=> (overlay[k] = "Value" \/ backend[k] = "Exists")

\* A successful call that dropped a key absent from overlay and backend and
\* kept a key without a live overlay value that the backend holds.
C1_Witness ==
    /\ Succeeded
    /\ \E k \in Touched :
           /\ overlay[k] # "Value"
           /\ backend[k] = "Missing"
           /\ ~\E e \in ExtrinsicEntries : e.key = k
    /\ \E k \in Touched :
           /\ overlay[k] # "Value"
           /\ backend[k] = "Exists"
           /\ \E e \in ExtrinsicEntries : e.key = k

\* C2: every ExtrinsicIndex entry is keyed by the overlay's block and lists
\* exactly the union of the key's prospective and committed ordinals, in
\* strictly ascending order.
C2_UnionOfOrdinals ==
    Succeeded =>
        \A e \in ExtrinsicEntries :
            /\ e.block = block
            /\ e.key \in Touched
            /\ Range(e.value) = Prospective(e.key) \cup Committed(e.key)
            /\ StrictlyAscending(e.value)

\* An entry for a key of both maps, each map holding an ordinal the other
\* lacks.
C2_Witness ==
    /\ Succeeded
    /\ \E e \in ExtrinsicEntries :
           /\ e.key \in DOMAIN ec_prospective \cap DOMAIN ec_committed
           /\ Prospective(e.key) \ Committed(e.key) # {}
           /\ Committed(e.key) \ Prospective(e.key) # {}
           /\ Len(e.value) >= 2

\* The yielded blocks whose trie holds an ExtrinsicIndex or a DigestIndex
\* entry of their own for the key.
Contributors(k) ==
    {b \in Yielded : \/ EncodeExtrinsicIndex(b, k) \in tries[b]
                     \/ EncodeDigestIndex(b, k) \in tries[b]}

\* C3: after a successful call there is a DigestIndex entry for a key
\* exactly when some yielded block's trie holds an entry of either kind for
\* it; the entry is keyed by the target block and lists exactly those
\* blocks; no yielded block, no DigestIndex entry.
C3_DigestContributors ==
    Succeeded =>
        /\ \A e \in DigestEntries :
               /\ e.block = block
               /\ e.key \in Keys
               /\ Range(e.value) = Contributors(e.key)
        /\ \A k \in Keys :
               Contributors(k) # {} => \E e \in DigestEntries : e.key = k
        /\ \A k \in Keys :
               Contributors(k) = {} => ~\E e \in DigestEntries : e.key = k
        /\ Yielded = {} => DigestEntries = {}

\* A digest block with a key two blocks contribute to, one of them through
\* a DigestIndex entry alone, and a key nothing contributes to.
C3_Witness ==
    /\ Succeeded
    /\ \E e \in DigestEntries :
           /\ Len(e.value) >= 2
           /\ \E b \in Yielded :
                  /\ EncodeDigestIndex(b, e.key) \in tries[b]
                  /\ EncodeExtrinsicIndex(b, e.key) \notin tries[b]
    /\ \E k \in Keys : Contributors(k) = {}

\* C4: in a returned list the ExtrinsicIndex entries come first, the keys of
\* each kind are strictly ascending on the raw bytes, and every value is
\* strictly ascending.
C4_Ordering ==
    Succeeded =>
        /\ \A i \in 1..Len(result.list), j \in 1..Len(result.list) :
               i < j =>
                   /\ IsDigest(result.list[i]) => IsDigest(result.list[j])
                   /\ result.list[i].kind = result.list[j].kind
                          => LexLess(result.list[i].key, result.list[j].key)
        /\ \A e \in Entries : StrictlyAscending(e.value)

\* A list with two entries of each kind and a value of two elements.
C4_Witness ==
    /\ Succeeded
    /\ Cardinality(ExtrinsicEntries) >= 2
    /\ Cardinality(DigestEntries) >= 2
    /\ \E e \in ExtrinsicEntries : Len(e.value) >= 2
    /\ \E e \in DigestEntries : Len(e.value) >= 2

\* C5: no returned entry, of either kind, has an empty value.
C5_NoEmptyValue ==
    Succeeded => \A e \in Entries : Len(e.value) >= 1

C7_AllOrNothing ==
    (Done /\ has_storage /\ has_extrinsic_changes) =>
        /\ ((\E k \in Touched : overlay[k] # "Value" /\ backend[k] = "Error")
               \/ (\E b \in Yielded : roots[b] # "Root"))
              => (result.tag = "Err" /\ ~result.some /\ result.list = <<>>)
        /\ result.msg.kind = "No changes trie root for block"
              => (result.msg.block \in Yielded
                     /\ roots[result.msg.block] = "NoRoot")
        /\ (/\ \A k \in Touched : backend[k] # "Error"
            /\ \A b \in Yielded : roots[b] # "Error"
            /\ \E b \in Yielded : roots[b] = "NoRoot")
              => result.msg.kind = "No changes trie root for block"

\* A call that failed on a missing root after it had computed extrinsic
\* entries and digest contributions of an earlier block.
C7_Witness ==
    /\ Done
    /\ result.tag = "Err"
    /\ result.msg.kind = "No changes trie root for block"
    /\ input # <<>>
    /\ DOMAIN digest_map # {}

\* C8: with no storage handle or no extrinsic_changes record the call
\* returns Ok(None) and reads neither the backend nor the storage.
C8_NoResult ==
    (~has_storage \/ ~has_extrinsic_changes) =>
        /\ backend_reads = {}
        /\ storage_reads = {}
        /\ result.tag # "Err"
        /\ Done => result = OkNone

\* Ok(None) returned although a backend read and a root lookup would fail.
C8_Witness ==
    /\ Done
    /\ result = OkNone
    /\ \E k \in Touched : overlay[k] # "Value" /\ backend[k] = "Error"
    /\ \E b \in Yielded : roots[b] = "NoRoot"

\* The raw keys a scan of the block's trie visits and skips.
Skipped(b) ==
    {r \in tries[b] :
        \/ HasPrefix(r, ExtrinsicPrefix(b))
               /\ ~(Decode(r).ok /\ Decode(r).kind = "ExtrinsicIndex")
        \/ HasPrefix(r, DigestPrefix(b))
               /\ ~(Decode(r).ok /\ Decode(r).kind = "DigestIndex")}

TriesWithoutSkipped == [b \in Blocks |-> tries[b] \ Skipped(b)]

\* C9: raw keys that a scan visits and cannot decode to the expected
\* variant never make the call fail, and the DigestIndex entries are those
\* of the same tries with these keys taken out.
C9_SkipsUndecodable ==
    Done =>
        /\ result.tag = "Err" =>
               \/ \E k \in Touched : overlay[k] # "Value" /\ backend[k] = "Error"
               \/ \E b \in Yielded : roots[b] # "Root"
        /\ Succeeded =>
               DigestPart = DigestPairs(
                   DigestFold(EmptyMap, digest_build_iterator(config, block),
                              TriesWithoutSkipped), block)

\* The first yielded block holds a key that is skipped and one that is not,
\* and a later block contributes too.
C9_Witness ==
    /\ Succeeded
    /\ Len(digest_build_iterator(config, block)) >= 2
    /\ LET b1 == digest_build_iterator(config, block)[1]
           b2 == digest_build_iterator(config, block)[2]
       IN  /\ Skipped(b1) # {}
           /\ \E k \in Keys : b1 \in Contributors(k)
           /\ \E k \in Keys : b2 \in Contributors(k)

\* Every sequence over the yielded blocks that yields each of them, one of
\* them possibly twice.
Reorderings ==
    LET n == Len(digest_build_iterator(config, block))
    IN  {s \in UNION {[1..m -> Yielded] : m \in n..(n + 1)} :
            Range(s) = Yielded}

\* The tries with the DigestIndex entry taken out wherever the block also
\* holds the ExtrinsicIndex entry of the same key.
TriesOneVariant ==
    [b \in Blocks |->
        tries[b] \ {EncodeDigestIndex(b, k) : k \in
                       {x \in Keys : EncodeExtrinsicIndex(b, x) \in tries[b]}}]

\* C10: the DigestIndex entries do not depend on the order in which the
\* blocks are yielded, on a block being yielded twice, or on a key being in
\* a block's trie under both variants.
C10_OrderIndependent ==
    Succeeded =>
        /\ \A s \in Reorderings :
               DigestPart = DigestPairs(DigestFold(EmptyMap, s, tries), block)
        /\ DigestPart = DigestPairs(
               DigestFold(EmptyMap, digest_build_iterator(config, block),
                          TriesOneVariant), block)

\* Two yielded blocks contribute to one key, and a block holds a key under
\* both variants.
C10_Witness ==
    /\ Succeeded
    /\ \E e \in DigestEntries : Len(e.value) >= 2
    /\ \E b \in Yielded, k \in Keys :
           /\ EncodeExtrinsicIndex(b, k) \in tries[b]
           /\ EncodeDigestIndex(b, k) \in tries[b]

====
